---- MODULE Spec2Model ----
(***************************************************************************)
(* Model of the processImage Cloud Function (src/index.js): an upload      *)
(* event is validated, checked against the image_logs collection, the     *)
(* object is downloaded, a thumbnail and a JPEG copy are derived and       *)
(* uploaded, a log entry is added, and the temporary files and the        *)
(* ExifTool process are released in a finally block.                      *)
(*                                                                         *)
(* File names and paths are sequences of one-character strings, so that   *)
(* split('/').pop(), startsWith, slice and the extension regular          *)
(* expression are computed on the characters as the code computes them.   *)
(* One action is one run of the handler between two awaits: the code up   *)
(* to and including the awaited call, together with the synchronous code  *)
(* (catch block, unlinkSync calls) that follows the call's completion.    *)
(***************************************************************************)
EXTENDS Integers, Sequences, FiniteSets, TLC

\* ------------------------------------------------------------------ bounds
MaxInvocations == 2

Invs == 1..MaxInvocations

\* ------------------------------------------------------- string functions
UpperCase ==
    <<"A","B","C","D","E","F","G","H","I","J","K","L","M",
      "N","O","P","Q","R","S","T","U","V","W","X","Y","Z">>

LowerCase ==
    <<"a","b","c","d","e","f","g","h","i","j","k","l","m",
      "n","o","p","q","r","s","t","u","v","w","x","y","z">>

ToLower(c) ==
    IF \E k \in 1..Len(UpperCase) : UpperCase[k] = c
    THEN LowerCase[CHOOSE k \in 1..Len(UpperCase) : UpperCase[k] = c]
    ELSE c

LowerStr(s) == [k \in 1..Len(s) |-> ToLower(s[k])]

EndsWith(s, suf) ==
    /\ Len(suf) <= Len(s)
    /\ SubSeq(s, Len(s) - Len(suf) + 1, Len(s)) = suf

startsWith(s, c) == Len(s) > 0 /\ s[1] = c

LastIndexOf(s, c) ==
    IF \E k \in 1..Len(s) : s[k] = c
    THEN CHOOSE k \in 1..Len(s) : s[k] = c /\ \A m \in (k+1)..Len(s) : s[m] # c
    ELSE 0

\* fileName.split('/').pop()
SplitPop(s) == SubSeq(s, LastIndexOf(s, "/") + 1, Len(s))

\* -------------------------------------------------------------- constants
SOURCE_BUCKET == "image-upload-bucket-dm01"
\* a thumbnail bucket that is the bucket the trigger watches
ThumbnailBucketIsSourceBucket == "image-upload-bucket-dm01"

THUMBNAIL_BUCKET == "thumbnail-bucket-dm01"
PROCESSED_BUCKET == "processed-images-bucket-dm01"

TmpDir == <<"/","t","m","p","/">>
ThumbnailPrefix == <<"t","h","u","m","b","n","a","i","l","-">>
ProcessedPrefix == <<"p","r","o","c","e","s","s","e","d","-">>

\* the alternatives of the regular expression /\.(jpg|jpeg|png|gif)$/i
ImageExtensions ==
    { <<"j","p","g">>, <<"j","p","e","g">>, <<"p","n","g">>, <<"g","i","f">> }

tempFilePath(fn) == TmpDir \o SplitPop(fn)
processedImagePath(fn) == TmpDir \o ProcessedPrefix \o SplitPop(fn)
thumbnailPath(fn) == TmpDir \o ThumbnailPrefix \o SplitPop(fn)

\* fileName.startsWith('/') ? fileName.slice(1) : fileName
filePath(fn) == IF startsWith(fn, "/") THEN Tail(fn) ELSE fn

\* a destination built from the whole name, directories included
thumbnailDestinationFullName(fn) == ThumbnailPrefix \o fn

thumbnailDestination(fn) == ThumbnailPrefix \o SplitPop(fn)
processedDestination(fn) == ProcessedPrefix \o SplitPop(fn)

\* a regular expression without the escaped dot: any character before the
\* extension is accepted
MatchesAnyCharBeforeExtension(fn) ==
    \E ext \in ImageExtensions :
        /\ Len(fn) > Len(ext)
        /\ EndsWith(LowerStr(fn), ext)

\* fileName.match(/\.(jpg|jpeg|png|gif)$/i)
MatchesImageExtension(fn) ==
    \E ext \in ImageExtensions : EndsWith(LowerStr(fn), <<".">> \o ext)

\* ------------------------------------------------------------- the events
\* An event is its name attribute: absent, or a string.
NoName == [present |-> FALSE, name |-> <<>>]
Named(s) == [present |-> TRUE, name |-> s]

Key_a_jpg == <<"a",".","j","p","g">>
Key_slash_a_jpg == <<"/","a",".","j","p","g">>
Key_d_a_JPG == <<"d","/","a",".","J","P","G">>
Key_n_txt == <<"n",".","t","x","t">>
Key_xjpg == <<"x","j","p","g">>
Key_d_slash == <<"d","/">>
Key_e_a_jpg == <<"e","/","a",".","j","p","g">>

EventNames == { Key_a_jpg, Key_slash_a_jpg, Key_d_a_JPG, Key_n_txt, Key_xjpg,
                Key_d_slash, <<>> }

Events == {NoName} \cup { Named(s) : s \in EventNames }

\* a check that lets the empty string through
IsMissingOnlyWhenAbsent(fn) == ~fn.present

\* !fileName
IsMissing(fn) == ~fn.present \/ fn.name = <<>>

\* ------------------------------------------------------- local filesystem
\* files is the set of regular files under /tmp, each with the invocation
\* that wrote it last; /tmp/ itself is a directory
IsDirectory(p) == p = TmpDir

existsSync(files, p) == (\E f \in files : f.path = p) \/ IsDirectory(p)

\* whether p is a regular file
IsFile(files, p) == \E f \in files : f.path = p

\* what the file at p holds
ReadFile(files, p) == (CHOOSE f \in files : f.path = p).content

\* creating or overwriting the file at p
WriteFile(files, p, i, c) ==
    { f \in files : f.path # p } \cup { [path |-> p, by |-> i, content |-> c] }

\* if (fs.existsSync(p)) fs.unlinkSync(p), after which a throw skips the rest
UnlinkIfExists(st, p) ==
    IF st.threw THEN st
    ELSE IF ~existsSync(st.files, p) THEN st
    ELSE IF IsDirectory(p) THEN [st EXCEPT !.threw = TRUE]
    ELSE [st EXCEPT !.files = { f \in @ : f.path # p }]

\* a cleanup that forgets the processed copy
CleanupWithoutProcessed(files, fn) ==
    UnlinkIfExists(
        UnlinkIfExists([files |-> files, threw |-> FALSE], tempFilePath(fn)),
        thumbnailPath(fn))

CleanupTempFiles(files, fn) ==
    UnlinkIfExists(
        UnlinkIfExists(
            UnlinkIfExists([files |-> files, threw |-> FALSE], tempFilePath(fn)),
            thumbnailPath(fn)),
        processedImagePath(fn))

\* ------------------------------------------------------------ control flow
TrySteps ==
    { "download", "probe", "resize", "read", "uploadThumb", "reformat",
      "uploadProcessed", "insert" }

ErrorOf(step) ==
    CASE step = "query" -> "QueryFailed"
      [] step = "download" -> "DownloadFailed"
      [] step \in {"probe", "resize", "reformat"} -> "DerivationFailed"
      [] step = "read" -> "ExtractionFailed"
      [] step \in {"uploadThumb", "uploadProcessed"} -> "UploadFailed"
      [] step = "insert" -> "PersistFailed"

\* the log entry is added before the uploads
AfterSuccessPersistFirst(step, fn) ==
    CASE step = "download" ->
            IF ~MatchesImageExtension(fn) THEN "rejected" ELSE "probe"
      [] step = "probe" -> "resize"
      [] step = "resize" -> "read"
      [] step = "read" -> "insert"
      [] step = "insert" -> "uploadThumb"
      [] step = "uploadThumb" -> "reformat"
      [] step = "reformat" -> "uploadProcessed"
      [] step = "uploadProcessed" -> "processed"

\* the file type is validated after the thumbnail has been generated
AfterSuccessLateTypeCheck(step, fn) ==
    CASE step = "download" -> "probe"
      [] step = "probe" -> "resize"
      [] step = "resize" ->
            IF ~MatchesImageExtension(fn) THEN "rejected" ELSE "read"
      [] step = "read" -> "uploadThumb"
      [] step = "uploadThumb" -> "reformat"
      [] step = "reformat" -> "uploadProcessed"
      [] step = "uploadProcessed" -> "insert"
      [] step = "insert" -> "processed"

\* where the try block goes when the awaited call of a step has succeeded
AfterSuccess(step, fn) ==
    CASE step = "download" ->
            IF ~MatchesImageExtension(fn) THEN "rejected" ELSE "probe"
      [] step = "probe" -> "resize"
      [] step = "resize" -> "read"
      [] step = "read" -> "uploadThumb"
      [] step = "uploadThumb" -> "reformat"
      [] step = "reformat" -> "uploadProcessed"
      [] step = "uploadProcessed" -> "insert"
      [] step = "insert" -> "processed"

\* ------------------------------------------------- metadata normalisation
\* JavaScript values.  A string is a sequence of characters; an object has a
\* class: "Object" (a plain object), "Array", "Buffer", "ExifDateTime" (an
\* object with a textual form of its own) or "Bare" (an object that has no
\* toString function, such as one created by Object.create(null)).
Str(s) == [t |-> "string", s |-> s]
Num(n) == [t |-> "number", n |-> n]
Bool(b) == [t |-> "boolean", b |-> b]
Null == [t |-> "null"]
Undefined == [t |-> "undefined"]
Buf(bytes) == [t |-> "object", class |-> "Buffer", bytes |-> bytes]
DateTime(text) == [t |-> "object", class |-> "ExifDateTime", text |-> text]
Arr(items) == [t |-> "object", class |-> "Array", items |-> items]
PlainObject(fields) == [t |-> "object", class |-> "Object", fields |-> fields]
BareObject(fields) == [t |-> "object", class |-> "Bare", fields |-> fields]

\* data[key] && typeof data[key] === 'object'
IsTruthyObject(v) == v.t = "object"

\* typeof data[key].toString === 'function': every object inherits
\* Object.prototype.toString unless it has no prototype
HasToStringFunction(v) == v.class # "Bare"

isBuffer(v) == v.class = "Buffer"

ObjectObject ==
    <<"[","o","b","j","e","c","t"," ","O","b","j","e","c","t","]">>

ReplacementChar == "U+FFFD"

\* Buffer.prototype.toString() decodes the bytes as UTF-8: an ASCII byte is
\* its character, a byte that cannot occur in UTF-8 (0xF8..0xFF) is U+FFFD.
\* The bytes of the model are 0x2B, 0x48, 0x69 and 0xFF.
Utf8Char(b) ==
    CASE b = 43 -> "+"
      [] b = 72 -> "H"
      [] b = 105 -> "i"
      [] b >= 248 -> ReplacementChar

Utf8Decode(bytes) == [k \in 1..Len(bytes) |-> Utf8Char(bytes[k])]

RECURSIVE JoinItems(_)
\* Array.prototype.toString(): the items' strings joined by commas
JoinItems(items) ==
    IF Len(items) = 0 THEN <<>>
    ELSE IF Len(items) = 1 THEN items[1].s
    ELSE items[1].s \o <<",">> \o JoinItems(Tail(items))

\* data[key].toString()
toString(v) ==
    CASE v.class = "Object" -> ObjectObject
      [] v.class = "Buffer" -> Utf8Decode(v.bytes)
      [] v.class = "ExifDateTime" -> v.text
      [] v.class = "Array" -> JoinItems(v.items)

Base64Alphabet ==
    <<"A","B","C","D","E","F","G","H","I","J","K","L","M",
      "N","O","P","Q","R","S","T","U","V","W","X","Y","Z",
      "a","b","c","d","e","f","g","h","i","j","k","l","m",
      "n","o","p","q","r","s","t","u","v","w","x","y","z",
      "0","1","2","3","4","5","6","7","8","9","+","/">>

Base64Char(n) == Base64Alphabet[n + 1]

RECURSIVE Base64Encode(_)
\* data[key].toString('base64')
Base64Encode(b) ==
    IF Len(b) = 0 THEN <<>>
    ELSE IF Len(b) = 1 THEN
        << Base64Char(b[1] \div 4), Base64Char((b[1] % 4) * 16), "=", "=" >>
    ELSE IF Len(b) = 2 THEN
        << Base64Char(b[1] \div 4),
           Base64Char((b[1] % 4) * 16 + b[2] \div 16),
           Base64Char((b[2] % 16) * 4), "=" >>
    ELSE
        << Base64Char(b[1] \div 4),
           Base64Char((b[1] % 4) * 16 + b[2] \div 16),
           Base64Char((b[2] % 16) * 4 + b[3] \div 64),
           Base64Char(b[3] % 64) >> \o Base64Encode(SubSeq(b, 4, Len(b)))

RECURSIVE makeFirestoreCompatibleKeepingBuffers(_)
\* a conversion that stringifies every object but a Buffer, which it copies
makeFirestoreCompatibleKeepingBuffers(data) ==
    [key \in DOMAIN data |->
        IF IsTruthyObject(data[key])
        THEN IF isBuffer(data[key])
             THEN data[key]
             ELSE IF HasToStringFunction(data[key])
             THEN Str(toString(data[key]))
             ELSE PlainObject(makeFirestoreCompatibleKeepingBuffers(data[key].fields))
        ELSE data[key]]

RECURSIVE makeFirestoreCompatibleDroppingFalsy(_)
\* a copy step that keeps only the members whose value is truthy
makeFirestoreCompatibleDroppingFalsy(data) ==
    LET Falsy(v) ==
            \/ v.t \in {"null", "undefined"}
            \/ (v.t = "number" /\ v.n = 0)
            \/ (v.t = "string" /\ Len(v.s) = 0)
            \/ (v.t = "boolean" /\ ~v.b)
    IN
    [key \in { k \in DOMAIN data : ~Falsy(data[k]) } |->
        IF IsTruthyObject(data[key])
        THEN IF HasToStringFunction(data[key])
             THEN Str(toString(data[key]))
             ELSE IF isBuffer(data[key])
             THEN Str(Base64Encode(data[key].bytes))
             ELSE PlainObject(makeFirestoreCompatibleDroppingFalsy(data[key].fields))
        ELSE data[key]]

RECURSIVE makeFirestoreCompatibleFalsyToNull(_)
\* a copy step written as result[key] = data[key] || null
makeFirestoreCompatibleFalsyToNull(data) ==
    LET Falsy(v) ==
            \/ v.t \in {"null", "undefined"}
            \/ (v.t = "number" /\ v.n = 0)
            \/ (v.t = "string" /\ Len(v.s) = 0)
            \/ (v.t = "boolean" /\ ~v.b)
    IN
    [key \in DOMAIN data |->
        IF IsTruthyObject(data[key])
        THEN IF HasToStringFunction(data[key])
             THEN Str(toString(data[key]))
             ELSE IF isBuffer(data[key])
             THEN Str(Base64Encode(data[key].bytes))
             ELSE PlainObject(makeFirestoreCompatibleFalsyToNull(data[key].fields))
        ELSE IF Falsy(data[key]) THEN Null ELSE data[key]]

RECURSIVE makeFirestoreCompatible(_)
\* data and the result are the members of an object: a function from the keys
\* that for...in enumerates to their values
makeFirestoreCompatible(data) ==
    [key \in DOMAIN data |->
        IF IsTruthyObject(data[key])
        THEN IF HasToStringFunction(data[key])
             THEN Str(toString(data[key]))
             ELSE IF isBuffer(data[key])
             THEN Str(Base64Encode(data[key].bytes))
             ELSE PlainObject(makeFirestoreCompatible(data[key].fields))
        ELSE data[key]]

\* the values a member of the extractor's output takes in the model
InnerValues ==
    { Num(1), Str(<<"x">>), Null, Buf(<<255>>),
      BareObject([c |-> Num(0)]), PlainObject([c |-> Num(2)]) }

MemberValues ==
    { Str(<<"x">>), Str(<<>>), Str(<<"S","G","k","=">>),
      Num(0), Num(7), Bool(FALSE), Bool(TRUE), Null, Undefined,
      Buf(<<72, 105>>), Buf(<<255>>), Buf(<<72, 43, 255>>),
      DateTime(<<"2","0","2","4">>),
      Arr(<< Str(<<"k">>), Str(<<"w">>) >>),
      PlainObject([b |-> Num(1)]) }
    \cup { BareObject([b |-> v]) : v \in InnerValues }

NormalizerKeys == {"Make", "Hash"}

\* the recursion ceiling that the design asks of the normalizer
DepthCeiling == 32

RECURSIVE Nested(_)
\* a value under n objects that have no toString function
Nested(n) == IF n = 0 THEN Num(1) ELSE BareObject([b |-> Nested(n - 1)])

NormalizerInputs ==
    UNION { [ks -> MemberValues] : ks \in SUBSET NormalizerKeys }
    \cup { [Make |-> Nested(DepthCeiling + 1), Hash |-> Null] }

\* ---------------------------------------------------------- source objects
\* What a temporary file holds: the object it was made from, whether the
\* 200x200 resize has been applied, and its format.
Original(object) == [object |-> object, resized |-> FALSE, format |-> "original"]
Partial(object) == [object |-> object, resized |-> FALSE, format |-> "partial"]

\* image.resize(200, 200).toFile(): the resized image in its input format
Thumbnail(c) == [c EXCEPT !.resized = TRUE]

\* image.toFormat('jpeg').toFile() on the sharp instance that resize(200, 200)
\* was called on at line 90: the instance keeps its resize option
Reformatted(c) == [c EXCEPT !.resized = TRUE, !.format = "jpeg"]

\* what image.metadata() reports for the objects of the source bucket
BasicMetadataOf(c) ==
    CASE c.object = Key_a_jpg -> [format |-> "jpeg", width |-> 640, height |-> 480]
      [] c.object = Key_d_a_JPG -> [format |-> "png", width |-> 32, height |-> 64]
      [] OTHER -> [format |-> "unknown", width |-> 0, height |-> 0]

\* what exiftool.read() reports for the objects of the source bucket
TagsOf(c) ==
    CASE c.object = Key_a_jpg ->
            [Make |-> Str(<<"x">>), Hash |-> Buf(<<72, 105>>)]
      [] c.object = Key_d_a_JPG ->
            [Make |-> DateTime(<<"2","0","2","4">>),
             Hash |-> BareObject([b |-> Num(0)])]
      [] OTHER -> [Make |-> Null, Hash |-> Undefined]

\* ---------------------------------------------------------- record store
\* a log entry that takes the raw extractor output
LogEntryRawMetadata(fn, basic, full, ts, i) ==
    [ fileName |-> fn,
      sourceBucket |-> SOURCE_BUCKET,
      thumbnailBucket |-> THUMBNAIL_BUCKET,
      processedBucket |-> PROCESSED_BUCKET,
      basicMetadata |-> basic,
      fullMetadata |-> full,
      timestamp |-> ts,
      by |-> i ]

\* logEntry; full is the extractor's output, ts the time of the insert and
\* by the invocation that writes the entry (0: not written by the handler)
LogEntry(fn, basic, full, ts, i) ==
    [ fileName |-> fn,
      sourceBucket |-> SOURCE_BUCKET,
      thumbnailBucket |-> THUMBNAIL_BUCKET,
      processedBucket |-> PROCESSED_BUCKET,
      basicMetadata |-> basic,
      fullMetadata |-> makeFirestoreCompatible(full),
      timestamp |-> ts,
      by |-> i ]

\* a query that never finds anything
ExistingLogAlwaysEmpty(logs, fn) == TRUE

\* existingLog.empty of collection('image_logs').where('fileName','==',fn)
ExistingLogEmpty(logs, fn) ==
    ~ \E k \in 1..Len(logs) : logs[k].fileName = fn

\* collection('image_logs').doc(fileName).set(logEntry): the file name is the
\* document id and an existing document is overwritten
SetDocumentByFileName(logs, entry) ==
    IF \E k \in 1..Len(logs) : logs[k].fileName = entry.fileName
    THEN [k \in 1..Len(logs) |->
            IF logs[k].fileName = entry.fileName THEN entry ELSE logs[k]]
    ELSE Append(logs, entry)

\* collection('image_logs').add(logEntry): a new document with a fresh id
AddDocument(logs, entry) == Append(logs, entry)

ForeignEntry(fn) ==
    LogEntry(fn, BasicMetadataOf(Original(fn)), TagsOf(Original(fn)), 0, 0)

\* the collection before any invocation: empty, or holding one document that
\* was not written by the handler (by = 0)
InitialLogs ==
    { <<>>, << ForeignEntry(Key_a_jpg) >>, << ForeignEntry(Key_n_txt) >> }

\* ------------------------------------------------------------------ state
VARIABLES
    pc,              \* where each invocation is
    fileName,        \* the name each invocation read from its event
    hadRecord,       \* whether image_logs held the name when it was invoked
    trace,           \* the collaborator calls each invocation has made
    pending,         \* what the invocation returns once the finally block ends
    outcome,         \* how each invocation ended
    thrown,          \* the error that reached the caller
    diag,            \* the structured diagnostics each invocation has logged
    basicMetadata,   \* what image.metadata() returned to each invocation
    fullMetadata,    \* what exiftool.read() returned to each invocation
    image_logs,      \* the Firestore collection
    tmp,             \* the regular files under /tmp and who wrote them
    thumbnailBucket, \* object names in the thumbnail bucket
    processedBucket, \* object names in the processed bucket
    uploads,         \* the uploads that have succeeded
    exiftoolState,   \* the ExifTool singleton
    clock,           \* the time, in invocations started
    data,            \* the argument of a call of makeFirestoreCompatible
    normalized       \* the state and the result of that call

handlerVars ==
    << pc, fileName, hadRecord, trace, pending, outcome, thrown, diag,
       basicMetadata, fullMetadata, image_logs, tmp, thumbnailBucket,
       processedBucket, uploads, exiftoolState, clock >>

normalizerVars == << data, normalized >>

vars == << handlerVars, normalizerVars >>

Call(step, ok) == [op |-> step, ok |-> ok]

Count(i, step) == Cardinality({ k \in 1..Len(trace[i]) : trace[i][k].op = step })

Succeeded(i, step) == \E k \in 1..Len(trace[i]) : trace[i][k] = Call(step, TRUE)

Failed(i, step) == \E k \in 1..Len(trace[i]) : trace[i][k] = Call(step, FALSE)

NoMetadata == [format |-> "none", width |-> 0, height |-> 0]

NoTags == [Make |-> Undefined, Hash |-> Undefined]

NotCalled == [state |-> "not called"]

HandlerInit ==
    /\ pc = [i \in Invs |-> "idle"]
    /\ fileName = [i \in Invs |-> NoName]
    /\ hadRecord = [i \in Invs |-> FALSE]
    /\ trace = [i \in Invs |-> <<>>]
    /\ pending = [i \in Invs |-> [outcome |-> "none", error |-> "none"]]
    /\ outcome = [i \in Invs |-> "none"]
    /\ thrown = [i \in Invs |-> "none"]
    /\ diag = [i \in Invs |-> {}]
    /\ basicMetadata = [i \in Invs |-> NoMetadata]
    /\ fullMetadata = [i \in Invs |-> NoTags]
    /\ tmp = {}
    /\ thumbnailBucket = {}
    /\ processedBucket = {}
    /\ uploads = {}
    /\ exiftoolState = "idle"
    /\ clock = 0

Init ==
    /\ HandlerInit
    /\ image_logs \in InitialLogs
    /\ data = NoTags
    /\ normalized = NotCalled

\* ---------------------------------------------------------------- actions
\* The finally block: the three unlinks, then the call of exiftool.end().
\* files, tr and ex are the values the step that leads here has produced.
Finally(i, files, tr, ex, out, err) ==
    LET st == CleanupTempFiles(files, fileName[i].name) IN
    /\ tmp' = st.files
    /\ IF st.threw
       THEN /\ pc' = [pc EXCEPT ![i] = "done"]
            /\ outcome' = [outcome EXCEPT ![i] = "Error"]
            /\ thrown' = [thrown EXCEPT ![i] = "UnlinkFailed"]
            /\ trace' = [trace EXCEPT ![i] = tr]
            /\ exiftoolState' = ex
            /\ pending' = pending
       ELSE /\ pc' = [pc EXCEPT ![i] = "end"]
            /\ pending' = [pending EXCEPT ![i] = [outcome |-> out, error |-> err]]
            /\ trace' = [trace EXCEPT ![i] = Append(tr, Call("end", TRUE))]
            /\ exiftoolState' = "ended"
            /\ UNCHANGED << outcome, thrown >>

\* a catch block that attempts a call that has failed once a second time
CatchFinallyRetryOnce(i, files, tr, ex, err) ==
    LET last == tr[Len(tr)].op
        attempts == Cardinality({ k \in 1..Len(tr) : tr[k].op = last })
    IN
    IF attempts < 2 /\ pc[i] # "readRejected"
    THEN /\ pc' = pc
         /\ trace' = [trace EXCEPT ![i] = tr]
         /\ tmp' = files
         /\ exiftoolState' = ex
         /\ UNCHANGED << diag, pending, outcome, thrown >>
    ELSE /\ diag' = [diag EXCEPT ![i] = @ \cup
                       {[fileName |-> fileName[i].name, error |-> err]}]
         /\ Finally(i, files, tr, ex, "Error", err)

\* The catch block followed by the finally block.
CatchFinally(i, files, tr, ex, err) ==
    /\ diag' = [diag EXCEPT ![i] = @ \cup
                  {[fileName |-> fileName[i].name, error |-> err]}]
    /\ Finally(i, files, tr, ex, "Error", err)

\* The call that the try block makes next and then awaits.  exiftool is the
\* singleton that exiftool-vendored exports: once end() has been called on it
\* it accepts no further request, and read() returns a rejected promise.
AwaitedCall(next, ex) ==
    IF next = "read" /\ ex = "ended" THEN "readRejected" ELSE next

\* What follows the success of a step of the try block.
Proceed(i, step, files, tr, ex) ==
    LET next == AfterSuccess(step, fileName[i].name) IN
    /\ diag' = diag
    /\ IF next = "rejected" THEN Finally(i, files, tr, ex, "Rejected", "none")
       ELSE IF next = "processed" THEN Finally(i, files, tr, ex, "Processed", "none")
       ELSE /\ pc' = [pc EXCEPT ![i] = AwaitedCall(next, ex)]
            /\ trace' = [trace EXCEPT ![i] = tr]
            /\ tmp' = files
            /\ exiftoolState' = ex
            /\ UNCHANGED << pending, outcome, thrown >>

\* Lines 42-51: the handler reads the name and validates it.
Start(i, ev) ==
    /\ pc[i] = "idle"
    /\ clock' = clock + 1
    /\ fileName' = [fileName EXCEPT ![i] = ev]
    /\ hadRecord' = [hadRecord EXCEPT ![i] =
                       ev.present /\ \E k \in 1..Len(image_logs) :
                                        image_logs[k].fileName = ev.name]
    /\ IF IsMissing(ev)
       THEN /\ pc' = [pc EXCEPT ![i] = "done"]
            /\ outcome' = [outcome EXCEPT ![i] = "InvalidEvent"]
            /\ thrown' = [thrown EXCEPT ![i] = "InvalidEvent"]
       ELSE /\ pc' = [pc EXCEPT ![i] = "query"]
            /\ UNCHANGED << outcome, thrown >>
    /\ UNCHANGED << trace, pending, diag, basicMetadata, fullMetadata,
                    image_logs, tmp, thumbnailBucket, processedBucket, uploads,
                    exiftoolState, normalizerVars >>

\* Invocations do not overlap: one starts when its predecessor has ended.
Invoke(i, ev) ==
    /\ \A j \in Invs : j < i => pc[j] = "done"
    /\ Start(i, ev)

\* The host starts an invocation while others are running.
InvokeConcurrent(i, ev) ==
    /\ \A j \in Invs : j < i => pc[j] # "idle"
    /\ Start(i, ev)

Query(i, ok) ==
    /\ pc[i] = "query"
    /\ trace' = [trace EXCEPT ![i] = Append(@, Call("query", ok))]
    /\ IF ~ok
       THEN /\ pc' = [pc EXCEPT ![i] = "done"]
            /\ outcome' = [outcome EXCEPT ![i] = "Error"]
            /\ thrown' = [thrown EXCEPT ![i] = ErrorOf("query")]
       ELSE IF ~ExistingLogEmpty(image_logs, fileName[i].name)
       THEN /\ pc' = [pc EXCEPT ![i] = "done"]
            /\ outcome' = [outcome EXCEPT ![i] = "Skipped"]
            /\ thrown' = thrown
       ELSE /\ pc' = [pc EXCEPT ![i] = "download"]
            /\ UNCHANGED << outcome, thrown >>
    /\ UNCHANGED << fileName, hadRecord, pending, diag, basicMetadata,
                    fullMetadata, image_logs, tmp, thumbnailBucket,
                    processedBucket, uploads, exiftoolState, clock,
                    normalizerVars >>

\* res: "ok", "fail" (nothing written) or "partial" (failed, file left behind)
Download(i, res) ==
    LET fn == fileName[i].name
        dest == tempFilePath(fn)
        ok == res = "ok" /\ ~IsDirectory(dest)
        files == IF IsDirectory(dest) \/ res = "fail" THEN tmp
                 ELSE IF res = "ok"
                 THEN WriteFile(tmp, dest, i, Original(filePath(fn)))
                 ELSE WriteFile(tmp, dest, i, Partial(filePath(fn)))
        tr == Append(trace[i], Call("download", ok))
    IN
    /\ pc[i] = "download"
    /\ IF ok THEN Proceed(i, "download", files, tr, exiftoolState)
       ELSE CatchFinally(i, files, tr, exiftoolState, ErrorOf("download"))
    /\ UNCHANGED << fileName, hadRecord, basicMetadata, fullMetadata,
                    image_logs, thumbnailBucket, processedBucket, uploads,
                    clock, normalizerVars >>

\* sharp(tempFilePath) and image.metadata()
Probe(i, ok) ==
    LET src == tempFilePath(fileName[i].name)
        done == ok /\ IsFile(tmp, src)
        tr == Append(trace[i], Call("probe", done))
    IN
    /\ pc[i] = "probe"
    /\ basicMetadata' = IF done
                        THEN [basicMetadata EXCEPT ![i] =
                                 BasicMetadataOf(ReadFile(tmp, src))]
                        ELSE basicMetadata
    /\ IF done THEN Proceed(i, "probe", tmp, tr, exiftoolState)
       ELSE CatchFinally(i, tmp, tr, exiftoolState, ErrorOf("probe"))
    /\ UNCHANGED << fileName, hadRecord, fullMetadata, image_logs,
                    thumbnailBucket, processedBucket, uploads, clock,
                    normalizerVars >>

\* image.resize(200, 200).toFile(thumbnailPath)
Resize(i, res) ==
    LET fn == fileName[i].name
        src == tempFilePath(fn)
        ok == res = "ok" /\ IsFile(tmp, src)
        files == IF res = "fail" \/ ~IsFile(tmp, src) THEN tmp
                 ELSE IF res = "ok"
                 THEN WriteFile(tmp, thumbnailPath(fn), i,
                                Thumbnail(ReadFile(tmp, src)))
                 ELSE WriteFile(tmp, thumbnailPath(fn), i,
                                Partial(ReadFile(tmp, src).object))
        tr == Append(trace[i], Call("resize", ok))
    IN
    /\ pc[i] = "resize"
    /\ IF ok THEN Proceed(i, "resize", files, tr, exiftoolState)
       ELSE CatchFinally(i, files, tr, exiftoolState, ErrorOf("resize"))
    /\ UNCHANGED << fileName, hadRecord, basicMetadata, fullMetadata,
                    image_logs, thumbnailBucket, processedBucket, uploads,
                    clock, normalizerVars >>

\* exiftool.read(tempFilePath) settles; makeFirestoreCompatible(fullMetadata)
\* follows at once and its result goes into the log entry.  A request that
\* the singleton accepted may succeed or fail; one it refused has failed.
Read(i, ok) ==
    LET src == tempFilePath(fileName[i].name)
        done == ok /\ IsFile(tmp, src) /\ pc[i] = "read"
        tr == Append(trace[i], Call("read", done))
        ex == IF exiftoolState = "ended" THEN "ended" ELSE "running"
    IN
    /\ pc[i] \in {"read", "readRejected"}
    /\ fullMetadata' = IF done
                       THEN [fullMetadata EXCEPT ![i] = TagsOf(ReadFile(tmp, src))]
                       ELSE fullMetadata
    /\ IF done THEN Proceed(i, "read", tmp, tr, ex)
       ELSE CatchFinally(i, tmp, tr, ex, ErrorOf("read"))
    /\ UNCHANGED << fileName, hadRecord, basicMetadata, image_logs,
                    thumbnailBucket, processedBucket, uploads, clock,
                    normalizerVars >>

UploadThumb(i, ok) ==
    LET fn == fileName[i].name
        src == thumbnailPath(fn)
        done == ok /\ IsFile(tmp, src)
        tr == Append(trace[i], Call("uploadThumb", done))
    IN
    /\ pc[i] = "uploadThumb"
    /\ thumbnailBucket' = IF done
                          THEN thumbnailBucket \cup {thumbnailDestination(fn)}
                          ELSE thumbnailBucket
    /\ uploads' = IF done
                  THEN uploads \cup
                       {[bucket |-> THUMBNAIL_BUCKET,
                         destination |-> thumbnailDestination(fn),
                         content |-> ReadFile(tmp, src),
                         by |-> i]}
                  ELSE uploads
    /\ IF done THEN Proceed(i, "uploadThumb", tmp, tr, exiftoolState)
       ELSE CatchFinally(i, tmp, tr, exiftoolState, ErrorOf("uploadThumb"))
    /\ UNCHANGED << fileName, hadRecord, basicMetadata, fullMetadata,
                    image_logs, processedBucket, clock, normalizerVars >>

\* image.toFormat('jpeg').toFile(processedImagePath)
Reformat(i, res) ==
    LET fn == fileName[i].name
        src == tempFilePath(fn)
        ok == res = "ok" /\ IsFile(tmp, src)
        files == IF res = "fail" \/ ~IsFile(tmp, src) THEN tmp
                 ELSE IF res = "ok"
                 THEN WriteFile(tmp, processedImagePath(fn), i,
                                Reformatted(ReadFile(tmp, src)))
                 ELSE WriteFile(tmp, processedImagePath(fn), i,
                                Partial(ReadFile(tmp, src).object))
        tr == Append(trace[i], Call("reformat", ok))
    IN
    /\ pc[i] = "reformat"
    /\ IF ok THEN Proceed(i, "reformat", files, tr, exiftoolState)
       ELSE CatchFinally(i, files, tr, exiftoolState, ErrorOf("reformat"))
    /\ UNCHANGED << fileName, hadRecord, basicMetadata, fullMetadata,
                    image_logs, thumbnailBucket, processedBucket, uploads,
                    clock, normalizerVars >>

UploadProcessed(i, ok) ==
    LET fn == fileName[i].name
        src == processedImagePath(fn)
        done == ok /\ IsFile(tmp, src)
        tr == Append(trace[i], Call("uploadProcessed", done))
    IN
    /\ pc[i] = "uploadProcessed"
    /\ processedBucket' = IF done
                          THEN processedBucket \cup {processedDestination(fn)}
                          ELSE processedBucket
    /\ uploads' = IF done
                  THEN uploads \cup
                       {[bucket |-> PROCESSED_BUCKET,
                         destination |-> processedDestination(fn),
                         content |-> ReadFile(tmp, src),
                         by |-> i]}
                  ELSE uploads
    /\ IF done THEN Proceed(i, "uploadProcessed", tmp, tr, exiftoolState)
       ELSE CatchFinally(i, tmp, tr, exiftoolState, ErrorOf("uploadProcessed"))
    /\ UNCHANGED << fileName, hadRecord, basicMetadata, fullMetadata,
                    image_logs, thumbnailBucket, clock, normalizerVars >>

\* db.collection('image_logs').add(logEntry)
Insert(i, ok) ==
    LET fn == fileName[i].name
        tr == Append(trace[i], Call("insert", ok))
        logEntry == LogEntry(fn, basicMetadata[i], fullMetadata[i], clock, i)
    IN
    /\ pc[i] = "insert"
    /\ image_logs' = IF ok THEN AddDocument(image_logs, logEntry) ELSE image_logs
    /\ IF ok THEN Proceed(i, "insert", tmp, tr, exiftoolState)
       ELSE CatchFinally(i, tmp, tr, exiftoolState, ErrorOf("insert"))
    /\ UNCHANGED << fileName, hadRecord, basicMetadata, fullMetadata,
                    thumbnailBucket, processedBucket, uploads, clock,
                    normalizerVars >>

\* await exiftool.end() completes; the handler returns or rethrows
End(i) ==
    /\ pc[i] = "end"
    /\ pc' = [pc EXCEPT ![i] = "done"]
    /\ outcome' = [outcome EXCEPT ![i] = pending[i].outcome]
    /\ thrown' = [thrown EXCEPT ![i] = pending[i].error]
    /\ UNCHANGED << fileName, hadRecord, trace, pending, diag, basicMetadata,
                    fullMetadata, image_logs, tmp, thumbnailBucket,
                    processedBucket, uploads, exiftoolState, clock,
                    normalizerVars >>

\* The host retires the worker while no invocation is running and loads the
\* module in a new one: the new process has its own exiftool singleton and
\* an empty /tmp.
ColdStart ==
    /\ \A i \in Invs : pc[i] \in {"idle", "done"}
    /\ exiftoolState = "ended"
    /\ exiftoolState' = "idle"
    /\ tmp' = {}
    /\ UNCHANGED << pc, fileName, hadRecord, trace, pending, outcome, thrown,
                    diag, basicMetadata, fullMetadata, image_logs,
                    thumbnailBucket, processedBucket, uploads, clock,
                    normalizerVars >>

Results == {"ok", "fail", "partial"}

Next ==
    \/ ColdStart
    \/ \E i \in Invs, ev \in Events : Invoke(i, ev)
    \/ \E i \in Invs, ok \in BOOLEAN : Query(i, ok)
    \/ \E i \in Invs, res \in Results : Download(i, res)
    \/ \E i \in Invs, ok \in BOOLEAN : Probe(i, ok)
    \/ \E i \in Invs, res \in Results : Resize(i, res)
    \/ \E i \in Invs, ok \in BOOLEAN : Read(i, ok)
    \/ \E i \in Invs, ok \in BOOLEAN : UploadThumb(i, ok)
    \/ \E i \in Invs, res \in Results : Reformat(i, res)
    \/ \E i \in Invs, ok \in BOOLEAN : UploadProcessed(i, ok)
    \/ \E i \in Invs, ok \in BOOLEAN : Insert(i, ok)
    \/ \E i \in Invs : End(i)

Spec == Init /\ [][Next]_vars

\* the steps of invocation i once the host has started it
Step(i) ==
    \/ \E ok \in BOOLEAN : Query(i, ok)
    \/ \E res \in Results : Download(i, res)
    \/ \E ok \in BOOLEAN : Probe(i, ok)
    \/ \E res \in Results : Resize(i, res)
    \/ \E ok \in BOOLEAN : Read(i, ok)
    \/ \E ok \in BOOLEAN : UploadThumb(i, ok)
    \/ \E res \in Results : Reformat(i, res)
    \/ \E ok \in BOOLEAN : UploadProcessed(i, ok)
    \/ \E ok \in BOOLEAN : Insert(i, ok)
    \/ End(i)

\* every awaited call settles: the promise is fulfilled or rejected, and the
\* event loop then runs the continuation of the handler
SpecLive == Init /\ [][Next]_vars /\ \A i \in Invs : WF_vars(Step(i))

\* ------------------------------------------- the normalizer on its own
\* makeFirestoreCompatible is called on one input and returns
Normalize ==
    /\ normalized = NotCalled
    /\ normalized' = [state |-> "returned", value |-> makeFirestoreCompatible(data)]
    /\ UNCHANGED << data, handlerVars >>

InitNormalize ==
    /\ HandlerInit
    /\ image_logs = <<>>
    /\ data \in NormalizerInputs
    /\ normalized = NotCalled

NextNormalize == Normalize

SpecNormalize == InitNormalize /\ [][NextNormalize]_vars

\* ------------------------------------------------ concurrent invocations
\* The host runs invocations side by side in one worker; the events are
\* uploads of images under names that share a directory-less base name.
ConcurrentEvents == { Named(Key_a_jpg), Named(Key_slash_a_jpg) }

InitConcurrent ==
    /\ HandlerInit
    /\ image_logs = <<>>
    /\ data = NoTags
    /\ normalized = NotCalled

NextConcurrent ==
    \/ \E i \in Invs, ev \in ConcurrentEvents : InvokeConcurrent(i, ev)
    \/ \E i \in Invs, ok \in BOOLEAN : Query(i, ok)
    \/ \E i \in Invs, res \in Results : Download(i, res)
    \/ \E i \in Invs, ok \in BOOLEAN : Probe(i, ok)
    \/ \E i \in Invs, res \in Results : Resize(i, res)
    \/ \E i \in Invs, ok \in BOOLEAN : Read(i, ok)
    \/ \E i \in Invs, ok \in BOOLEAN : UploadThumb(i, ok)
    \/ \E i \in Invs, res \in Results : Reformat(i, res)
    \/ \E i \in Invs, ok \in BOOLEAN : UploadProcessed(i, ok)
    \/ \E i \in Invs, ok \in BOOLEAN : Insert(i, ok)
    \/ \E i \in Invs : End(i)

SpecConcurrent == InitConcurrent /\ [][NextConcurrent]_vars

\* The same for uploads of two objects, of different directories, whose
\* names share a directory-less base name.
ObjectEvents == { Named(Key_a_jpg), Named(Key_e_a_jpg) }

NextConcurrentObjects ==
    \/ \E i \in Invs, ev \in ObjectEvents : InvokeConcurrent(i, ev)
    \/ \E i \in Invs, ok \in BOOLEAN : Query(i, ok)
    \/ \E i \in Invs, res \in Results : Download(i, res)
    \/ \E i \in Invs, ok \in BOOLEAN : Probe(i, ok)
    \/ \E i \in Invs, res \in Results : Resize(i, res)
    \/ \E i \in Invs, ok \in BOOLEAN : Read(i, ok)
    \/ \E i \in Invs, ok \in BOOLEAN : UploadThumb(i, ok)
    \/ \E i \in Invs, res \in Results : Reformat(i, res)
    \/ \E i \in Invs, ok \in BOOLEAN : UploadProcessed(i, ok)
    \/ \E i \in Invs, ok \in BOOLEAN : Insert(i, ok)
    \/ \E i \in Invs : End(i)

SpecConcurrentObjects == InitConcurrent /\ [][NextConcurrentObjects]_vars

TypeOK ==
    /\ pc \in [Invs -> {"idle", "query", "readRejected", "end", "done"}
                          \cup TrySteps]
    /\ outcome \in [Invs -> {"none", "InvalidEvent", "Skipped", "Rejected",
                             "Processed", "Error"}]
    /\ exiftoolState \in {"idle", "running", "ended"}

\* ------------------------------------------------------------- properties
Ended(i) == pc[i] = "done"

HasName(i) == fileName[i].present /\ Len(fileName[i].name) > 0

\* the documents of image_logs that the handler wrote for a name
HandlerRecords(fn) ==
    { k \in 1..Len(image_logs) :
        image_logs[k].by # 0 /\ image_logs[k].fileName = fn }

\* the temporary files that invocation i created and that still exist
TempFilesOf(i) == { f \in tmp : f.by = i }

\* no download, derivation, extraction, upload or insert has been attempted
NoWork(i) == \A s \in TrySteps : Count(i, s) = 0

\* the suffix of a name is what follows its last dot
HasImageSuffix(fn) ==
    /\ LastIndexOf(fn, ".") > 0
    /\ LowerStr(SubSeq(fn, LastIndexOf(fn, ".") + 1, Len(fn))) \in ImageExtensions

C2_Original ==
    \A i \in Invs :
        (Ended(i) /\ hadRecord[i]) =>
            /\ outcome[i] = "Skipped"
            /\ thrown[i] = "none"
            /\ NoWork(i)

\* C2 amended: an invocation for a name that image_logs already holds never
\* attempts a download, derivation, extraction, upload or insert; it ends
\* Skipped without an error when its idempotency query succeeds, and with the
\* query's error when the query fails.
C2_SkippedWhenQuerySucceeds ==
    \A i \in Invs :
        hadRecord[i] =>
            /\ NoWork(i)
            /\ Count(i, "end") = 0
            /\ (Ended(i) /\ Succeeded(i, "query")) =>
                   (outcome[i] = "Skipped" /\ thrown[i] = "none")
            /\ (Ended(i) /\ Failed(i, "query")) =>
                   (outcome[i] = "Error" /\ thrown[i] = "QueryFailed")

C2_Witness ==
    \E i \in Invs :
        /\ hadRecord[i]
        /\ Ended(i)
        /\ outcome[i] = "Skipped"
        /\ trace[i] = << Call("query", TRUE) >>

\* C3: an event whose name is absent or empty fails with InvalidEvent and the
\* invocation has made no collaborator call at all.
C3_InvalidEventNoCalls ==
    \A i \in Invs :
        (Ended(i) /\ (~fileName[i].present \/ Len(fileName[i].name) = 0)) =>
            /\ outcome[i] = "InvalidEvent"
            /\ thrown[i] = "InvalidEvent"
            /\ trace[i] = <<>>

C3_Witness ==
    \E i, j \in Invs :
        /\ Ended(i) /\ fileName[i] = NoName /\ outcome[i] = "InvalidEvent"
        /\ Ended(j) /\ fileName[j] = Named(<<>>) /\ outcome[j] = "InvalidEvent"

\* C4: once an invocation has ended, whatever its outcome, none of its three
\* temporary files (original, thumbnail, processed copy) exists any more.
C4_NoTempFilesRemain ==
    \A i \in Invs : Ended(i) => TempFilesOf(i) = {}

C4_Witness ==
    \E i \in Invs :
        /\ Ended(i)
        /\ Succeeded(i, "download")
        /\ Succeeded(i, "resize")
        /\ Succeeded(i, "reformat")
        /\ outcome[i] = "Error"

\* C5 as stated: once an invocation has ended, on every exit path, it has
\* shut the metadata extractor down exactly once.
C5_ExtractorEndedExactlyOnce ==
    \A i \in Invs : Ended(i) => Count(i, "end") = 1

\* C6: a handler-written document exists only for an invocation whose
\* thumbnail upload and processed-copy upload have both succeeded.
C6_RecordOnlyAfterUploads ==
    \A k \in 1..Len(image_logs) :
        image_logs[k].by # 0 =>
            /\ Succeeded(image_logs[k].by, "uploadThumb")
            /\ Succeeded(image_logs[k].by, "uploadProcessed")
            /\ thumbnailDestination(image_logs[k].fileName) \in thumbnailBucket
            /\ processedDestination(image_logs[k].fileName) \in processedBucket

C6_Witness ==
    \E k \in 1..Len(image_logs) :
        /\ image_logs[k].by # 0
        /\ Succeeded(image_logs[k].by, "insert")

\* C7 as stated: every invocation for a non-empty name whose suffix is not
\* jpg, jpeg, png or gif (in any case) ends Rejected without an error.
C7_Original ==
    \A i \in Invs :
        (Ended(i) /\ HasName(i) /\ ~HasImageSuffix(fileName[i].name)) =>
            (outcome[i] = "Rejected" /\ thrown[i] = "none")

\* C7 amended: an invocation for a non-empty name whose suffix is not jpg,
\* jpeg, png or gif (in any case) ends Rejected without an error provided
\* image_logs holds no document for the name and the idempotency query and
\* the download both succeed.
C7_RejectedAfterDownload ==
    \A i \in Invs :
        ( /\ Ended(i)
          /\ HasName(i)
          /\ ~HasImageSuffix(fileName[i].name)
          /\ ~hadRecord[i]
          /\ Succeeded(i, "query")
          /\ Succeeded(i, "download") ) =>
            (outcome[i] = "Rejected" /\ thrown[i] = "none")

C7_Witness ==
    \E i, j \in Invs :
        /\ Ended(i) /\ fileName[i] = Named(Key_xjpg) /\ outcome[i] = "Rejected"
        /\ Ended(j) /\ fileName[j] = Named(Key_n_txt) /\ outcome[j] = "Rejected"

\* C8: an invocation that ends Rejected has made one idempotency query and
\* one download and no probe, resize, reformat, extractor read, upload or
\* insert, and has left no document and no object behind.
C8_RejectedOnlyQueryAndDownload ==
    \A i \in Invs :
        (Ended(i) /\ outcome[i] = "Rejected") =>
            /\ Count(i, "query") = 1
            /\ Count(i, "download") = 1
            /\ \A s \in TrySteps \ {"download"} : Count(i, s) = 0
            /\ \A k \in 1..Len(image_logs) : image_logs[k].by # i

C8_Witness ==
    \E i \in Invs :
        /\ Ended(i)
        /\ outcome[i] = "Rejected"
        /\ Succeeded(i, "download")

\* C9 as stated: when the download, a derivation, the extraction, an upload
\* or the insert fails, the error that reaches the caller is that failure,
\* and by then the temporary files are removed and the extractor shut down.
C9_FailurePropagatedAfterRelease ==
    \A i \in Invs : \A s \in TrySteps :
        (Ended(i) /\ Failed(i, s)) =>
            /\ outcome[i] = "Error"
            /\ thrown[i] = ErrorOf(s)
            /\ TempFilesOf(i) = {}
            /\ Count(i, "end") = 1

AllCallsSucceeded(i) == \A k \in 1..Len(trace[i]) : trace[i][k].ok

RecordsBy(i) == { k \in 1..Len(image_logs) : image_logs[k].by = i }

\* the buckets and destinations of the uploads of invocation i
UploadsBy(i) ==
    { [bucket |-> u.bucket, destination |-> u.destination] :
        u \in { v \in uploads : v.by = i } }

\* C11: an invocation for a name with an accepted extension and no existing
\* record, all of whose collaborator calls succeed, ends Processed having
\* uploaded exactly two objects, "thumbnail-" + basename to the thumbnail
\* bucket and "processed-" + basename to the processed bucket, and having
\* inserted exactly one record.
C11_ProcessedTwoUploadsOneRecord ==
    \A i \in Invs :
        ( /\ Ended(i)
          /\ HasName(i)
          /\ HasImageSuffix(fileName[i].name)
          /\ ~hadRecord[i]
          /\ AllCallsSucceeded(i) ) =>
            /\ outcome[i] = "Processed"
            /\ Count(i, "uploadThumb") = 1
            /\ Count(i, "uploadProcessed") = 1
            /\ UploadsBy(i) =
                 { [bucket |-> THUMBNAIL_BUCKET,
                    destination |-> ThumbnailPrefix \o SplitPop(fileName[i].name)],
                   [bucket |-> PROCESSED_BUCKET,
                    destination |-> ProcessedPrefix \o SplitPop(fileName[i].name)] }
            /\ Cardinality(RecordsBy(i)) = 1

C11_Witness ==
    \E i \in Invs :
        /\ Ended(i)
        /\ fileName[i] = Named(Key_d_a_JPG)
        /\ outcome[i] = "Processed"
        /\ Cardinality(UploadsBy(i)) = 2

\* C12: the record of a Processed invocation holds the event's name, the
\* three bucket names, the basic metadata that the probe returned for the
\* downloaded object, the normalizer's result on the extractor's output, and
\* a timestamp taken during the invocation.
C12_RecordContents ==
    \A k \in 1..Len(image_logs) :
        LET r == image_logs[k] IN
        r.by # 0 =>
            /\ r.fileName = fileName[r.by].name
            /\ r.sourceBucket = SOURCE_BUCKET
            /\ r.thumbnailBucket = THUMBNAIL_BUCKET
            /\ r.processedBucket = PROCESSED_BUCKET
            /\ r.basicMetadata = basicMetadata[r.by]
            /\ r.basicMetadata = BasicMetadataOf(Original(filePath(r.fileName)))
            /\ r.fullMetadata = makeFirestoreCompatible(fullMetadata[r.by])
            /\ fullMetadata[r.by] = TagsOf(Original(filePath(r.fileName)))
            /\ r.timestamp >= r.by
            /\ r.timestamp <= clock

C12_Witness ==
    \E k \in 1..Len(image_logs) :
        /\ image_logs[k].by # 0
        /\ image_logs[k].fileName = Key_slash_a_jpg
        /\ outcome[image_logs[k].by] = "Processed"

Returned == normalized.state = "returned"

IsBinary(v) == v.t = "object" /\ v.class = "Buffer"

IsPrimitive(v) == v.t \in {"string", "number", "boolean", "null"}

Base64Index(c) == (CHOOSE k \in 1..Len(Base64Alphabet) : Base64Alphabet[k] = c) - 1

RECURSIVE Base64Bytes(_)
Base64Bytes(d) ==
    IF Len(d) < 2 THEN <<>>
    ELSE IF Len(d) = 2 THEN << d[1] * 4 + d[2] \div 16 >>
    ELSE IF Len(d) = 3 THEN
        << d[1] * 4 + d[2] \div 16, (d[2] % 16) * 16 + d[3] \div 4 >>
    ELSE
        << d[1] * 4 + d[2] \div 16,
           (d[2] % 16) * 16 + d[3] \div 4,
           (d[3] % 4) * 64 + d[4] >> \o Base64Bytes(SubSeq(d, 5, Len(d)))

\* the bytes a base64 text stands for; characters outside the alphabet
\* (padding included) carry no bits
Base64Decode(s) ==
    LET digits == SelectSeq(s, LAMBDA c :
                      \E k \in 1..Len(Base64Alphabet) : Base64Alphabet[k] = c)
    IN Base64Bytes([k \in 1..Len(digits) |-> Base64Index(digits[k])])

\* C14 as stated: every binary member value is converted to a base64 string
\* that decodes back to exactly the original bytes.
C14_BinaryRoundTrip ==
    Returned =>
        \A key \in DOMAIN data :
            IsBinary(data[key]) =>
                /\ normalized.value[key].t = "string"
                /\ Base64Decode(normalized.value[key].s) = data[key].bytes

\* C15 as stated: a member that is a composite other than a binary payload or
\* a value with a text form of its own (a nested mapping) comes out as a
\* mapping whose members are the normalized members of the input.
C15_NestedMappingWalked ==
    Returned =>
        \A key \in DOMAIN data :
            (data[key].t = "object" /\ data[key].class \in {"Object", "Bare"}) =>
                /\ normalized.value[key].t = "object"
                /\ normalized.value[key].fields =
                       makeFirestoreCompatible(data[key].fields)

RECURSIVE IsNormalizedForm(_)
\* primitives, strings and plain mappings of these
IsNormalizedForm(fields) ==
    \A key \in DOMAIN fields :
        \/ IsPrimitive(fields[key])
        \/ /\ fields[key].t = "object"
           /\ fields[key].class = "Object"
           /\ IsNormalizedForm(fields[key].fields)

\* C16 as stated: normalizing a value that is already in normalized form
\* returns that value.
C16_IdempotentOnNormalized ==
    (Returned /\ IsNormalizedForm(data)) => normalized.value = data

SetMax(S) == IF S = {} THEN 0 ELSE CHOOSE n \in S : \A m \in S : m <= n

RECURSIVE NestingDepth(_)
\* the number of mappings a value is nested under
NestingDepth(v) ==
    IF v.t = "object" /\ v.class \in {"Object", "Bare"}
    THEN 1 + SetMax({ NestingDepth(v.fields[key]) : key \in DOMAIN v.fields })
    ELSE 0

InputDepth == NestingDepth(BareObject(data))

\* C17 as stated: on an input nested deeper than the ceiling the normalizer
\* fails with NormalizationDepthExceeded.
C17_DepthGuard ==
    (normalized # NotCalled /\ InputDepth > DepthCeiling) =>
        normalized.state = "NormalizationDepthExceeded"

RECURSIVE KeysPreserved(_, _)
\* out has the keys of in, at every level that out holds as a mapping
KeysPreserved(in, out) ==
    /\ DOMAIN out = DOMAIN in
    /\ \A key \in DOMAIN out :
          out[key].t = "object" =>
              /\ in[key].t = "object"
              /\ in[key].class \in {"Object", "Bare"}
              /\ KeysPreserved(in[key].fields, out[key].fields)

\* C18: the normalizer filters no field: at every level that it outputs as a
\* mapping, the output has exactly the keys of the input.
C18_NoFieldFiltered ==
    Returned => KeysPreserved(data, normalized.value)

C18_Witness ==
    /\ Returned
    /\ data = [Make |-> BareObject([b |-> Null]), Hash |-> Undefined]
    /\ normalized.value.Make.t = "object"
    /\ DOMAIN normalized.value.Make.fields = {"b"}

\* C19: every primitive member (string, number, boolean, null) is in the
\* output under the same key with the same value.
C19_PrimitivesUnchanged ==
    Returned =>
        \A key \in DOMAIN data :
            IsPrimitive(data[key]) =>
                /\ key \in DOMAIN normalized.value
                /\ normalized.value[key] = data[key]

C19_Witness ==
    /\ Returned
    /\ data = [Make |-> Num(0), Hash |-> Str(<<>>)]
    /\ normalized.value = data

\* ------------------------------------------------ concurrency properties
\* C20: two concurrent invocations for one name can both pass the idempotency
\* query before either inserts; when both end Processed, image_logs holds two
\* records for the name and each invocation has uploaded both artifacts.
C20_RaceDuplicates ==
    \A i, j \in Invs :
        ( /\ i # j
          /\ fileName[i] = fileName[j]
          /\ outcome[i] = "Processed"
          /\ outcome[j] = "Processed" ) =>
            /\ Cardinality(HandlerRecords(fileName[i].name)) >= 2
            /\ RecordsBy(i) # {}
            /\ RecordsBy(j) # {}
            /\ Cardinality(UploadsBy(i)) = 2
            /\ Cardinality(UploadsBy(j)) = 2

C20_Witness ==
    \E i, j \in Invs :
        /\ i # j
        /\ fileName[i] = fileName[j]
        /\ ~hadRecord[i] /\ ~hadRecord[j]
        /\ outcome[i] = "Processed"
        /\ outcome[j] = "Processed"
        /\ Cardinality(HandlerRecords(fileName[i].name)) = 2
        /\ Cardinality({ u \in uploads : u.by \in {i, j} }) = 4

\* C21: no step changes or removes a document that image_logs already holds;
\* the collection only grows, by documents added at its end.
C21_RecordsOnlyGrow ==
    [][ /\ Len(image_logs') >= Len(image_logs)
        /\ \A k \in 1..Len(image_logs) : image_logs'[k] = image_logs[k] ]_vars

C21_Witness ==
    /\ Len(image_logs) = 2
    /\ image_logs[1].fileName = image_logs[2].fileName
    /\ image_logs[1].by # image_logs[2].by
    /\ image_logs[1].timestamp <= image_logs[2].timestamp

\* ------------------------------------------------- properties of the steps
\* the collaborator calls of an invocation in the order of the code
StepOrder ==
    << "query", "download", "probe", "resize", "read", "uploadThumb",
       "reformat", "uploadProcessed", "insert", "end" >>

Pos(op) == CHOOSE k \in 1..Len(StepOrder) : StepOrder[k] = op

\* C22: an invocation makes each collaborator call at most once (the query,
\* the download, each derivation, the extractor read, each upload, the
\* insert), so a call that has failed is not attempted again.
C22_NoRetry ==
    \A i \in Invs :
        /\ \A s \in TrySteps \cup {"query"} : Count(i, s) <= 1
        /\ \A b \in {THUMBNAIL_BUCKET, PROCESSED_BUCKET} :
               Cardinality({ u \in uploads : u.by = i /\ u.bucket = b }) <= 1

C22_Witness ==
    \E i, j \in Invs :
        /\ Ended(i) /\ Failed(i, "uploadThumb") /\ Count(i, "uploadThumb") = 1
        /\ Ended(j) /\ Failed(j, "download") /\ Count(j, "download") = 1

\* C23 as stated: the thumbnail and the reformatted copy have both been
\* produced before any upload to a destination bucket begins.
C23_Original ==
    \A i \in Invs : \A k \in 1..Len(trace[i]) :
        trace[i][k].op \in {"uploadThumb", "uploadProcessed"} =>
            /\ \E a \in 1..(k - 1) : trace[i][a] = Call("resize", TRUE)
            /\ \E b \in 1..(k - 1) : trace[i][b] = Call("reformat", TRUE)

\* C23 amended: the calls of an invocation are made in the order query,
\* download, probe, resize (thumbnail), extractor read, thumbnail upload,
\* reformat, processed-copy upload, insert, each only after the one before it
\* has succeeded; the reformatted copy is produced after the thumbnail upload.
C23_StepOrder ==
    \A i \in Invs : \A k \in 2..Len(trace[i]) :
        \/ /\ trace[i][k].op = "end"
           /\ k = Len(trace[i])
        \/ /\ trace[i][k].op # "end"
           /\ trace[i][k - 1].ok
           /\ Pos(trace[i][k].op) = Pos(trace[i][k - 1].op) + 1

C23_Witness ==
    \E i \in Invs :
        /\ outcome[i] = "Processed"
        /\ [k \in 1..Len(trace[i]) |-> trace[i][k].op] = StepOrder

\* C24 as stated: no extractor read of an invocation is refused because an
\* earlier invocation of the worker has shut the extractor down.
C24_ExtractorRestartable ==
    \A i \in Invs : pc[i] # "readRejected"

\* the errors of the collaborators
CollaboratorErrors == { ErrorOf(s) : s \in TrySteps \cup {"query"} }

\* C25 as stated: every invocation that the host has started ends, and it
\* ends with InvalidEvent, Skipped, Rejected, Processed or the error of a
\* collaborator; it ends Processed only if its insert has succeeded.
C25_Terminates ==
    /\ \A i \in Invs : (pc[i] # "idle") ~> Ended(i)
    /\ [](\A i \in Invs :
            Ended(i) =>
                /\ outcome[i] \in {"InvalidEvent", "Skipped", "Rejected",
                                   "Processed", "Error"}
                /\ outcome[i] = "Error" => thrown[i] \in CollaboratorErrors
                /\ outcome[i] = "Processed" => Succeeded(i, "insert"))

RECURSIVE IsStorable(_)
\* a value that is no object (a string, a number, a boolean, null or
\* undefined) or a plain mapping of such values
IsStorable(v) ==
    IF v.t # "object" THEN TRUE
    ELSE /\ v.class = "Object"
         /\ \A key \in DOMAIN v.fields : IsStorable(v.fields[key])

\* C26: the normalizer's result holds no Buffer at any depth: each of its
\* values is a primitive, a string or a mapping of such values.
C26_NoBinaryRemains ==
    Returned => \A key \in DOMAIN normalized.value :
                    IsStorable(normalized.value[key])

C26_Witness ==
    /\ Returned
    /\ DOMAIN data = NormalizerKeys
    /\ IsBinary(data["Hash"])
    /\ data["Make"] = BareObject([b |-> Buf(<<255>>)])

C28_ReadNotCutOff ==
    [][ \A i, j \in Invs :
          (i # j /\ pc[i] = "read") => ~(pc[j] # "end" /\ pc'[j] = "end") ]_vars

\* C29 as stated: a step of one invocation neither removes nor overwrites a
\* temporary file that a running invocation for another object has written.
C29_TempFilesNotShared ==
    [][ \A i, j \in Invs :
          ( /\ i # j
            /\ pc[i] \notin {"idle", "end", "done"}
            /\ pc'[j] # pc[j]
            /\ filePath(fileName[i].name) # filePath(fileName[j].name) ) =>
              \A f \in TempFilesOf(i) : f \in tmp' ]_vars

\* C30 as stated: when the removal of a temporary file fails, the other
\* temporary files are still removed, the extractor is still shut down, and
\* a failure of an earlier step is still the error that reaches the caller.
C30_ReleaseIndependent ==
    \A i \in Invs :
        ( /\ Ended(i)
          /\ HasName(i)
          /\ Count(i, "download") = 1
          /\ IsDirectory(tempFilePath(fileName[i].name)) ) =>
            /\ TempFilesOf(i) = {}
            /\ exiftoolState = "ended"
            /\ \A s \in TrySteps : Failed(i, s) => thrown[i] = ErrorOf(s)

\* ------------------------------------------- properties of the artifacts
\* the name of the event of the invocation that made an upload
KeyOf(u) == fileName[u.by].name

\* C31 as stated: once every invocation has ended, an object uploaded for a
\* name is in a destination bucket only if image_logs holds a record for the
\* name, and an invocation that has ended with an error has uploaded nothing.
C31_PublicationAllOrNothing ==
    (\A i \in Invs : pc[i] \in {"idle", "done"}) =>
        /\ \A u \in uploads :
               \E k \in 1..Len(image_logs) : image_logs[k].fileName = KeyOf(u)
        /\ \A i \in Invs :
               outcome[i] = "Error" => { u \in uploads : u.by = i } = {}

\* C32 as stated: an invocation for a name that, a leading "/" apart, is the
\* name of an earlier invocation that ended Processed, is skipped when its
\* idempotency query succeeds.
C32_LeadingSlashSameKey ==
    \A i, j \in Invs :
        ( /\ i < j
          /\ outcome[i] = "Processed"
          /\ HasName(j)
          /\ filePath(fileName[j].name) = filePath(fileName[i].name)
          /\ Succeeded(j, "query") ) =>
            /\ Count(j, "download") = 0
            /\ Ended(j) => outcome[j] = "Skipped"

\* C33 as stated: two uploads to one destination name of one bucket are
\* uploads for one and the same event name.
C33_DestinationsDistinct ==
    \A u, v \in uploads :
        (u.bucket = v.bucket /\ u.destination = v.destination) =>
            KeyOf(u) = KeyOf(v)

\* C34: no upload goes to the source bucket and an invocation downloads from
\* it at most once; the objects it creates are in the two other buckets.
C34_SourceBucketUntouched ==
    /\ \A u \in uploads : u.bucket # SOURCE_BUCKET
    /\ \A u \in uploads :
           u.bucket \in {"thumbnail-bucket-dm01", "processed-images-bucket-dm01"}
    /\ \A i \in Invs : Count(i, "download") <= 1

C34_Witness ==
    \E i \in Invs :
        /\ outcome[i] = "Processed"
        /\ Count(i, "download") = 1
        /\ { u.bucket : u \in { v \in uploads : v.by = i } } =
               {"thumbnail-bucket-dm01", "processed-images-bucket-dm01"}

\* C35 as stated: the object uploaded to the processed bucket is the
\* downloaded image in jpeg format, without the 200x200 resize.
C35_ProcessedCopyNotResized ==
    \A u \in uploads :
        u.bucket = PROCESSED_BUCKET =>
            (u.content.format = "jpeg" /\ ~u.content.resized)

====
